---------------------------- MODULE Spec2Model ----------------------------
(***************************************************************************)
(* A model of clean_clippings.py: the normalizer, the similarity           *)
(* primitives, the duplicate classifier is_duplicate and the grouping,     *)
(* retention and ordering loop dedup_by_book.                              *)
(*                                                                         *)
(* Representation.                                                         *)
(*   - A Python str is a sequence of Unicode code points (naturals).       *)
(*   - An Optional[int] is <<>> (None) or <<v>>.                           *)
(*   - A location e["loc"] is <<>> for (None, None) or <<start, end>>;     *)
(*     parse_loc returns either both None or both integers.                *)
(*   - A similarity threshold r is carried as the integer 100 * r, and     *)
(*     ratio() >= r is decided as 200 * M >= (100 r) * T, which is exact   *)
(*     for the two-decimal thresholds the program uses.                    *)
(***************************************************************************)
EXTENDS Integers, Sequences, FiniteSets, TLC

(***************************************************************************)
(* Text helpers (str methods and the regular expressions of the module).   *)
(***************************************************************************)

\* Code points for which str.isspace() holds, which is also the class \s.
WhitespaceChars ==
    {9, 10, 11, 12, 13, 28, 29, 30, 31, 32, 133, 160, 5760} \cup (8192..8202)
        \cup {8232, 8233, 8239, 8287, 12288}

IsSpace(c) == c \in WhitespaceChars

\* CJK_RE: the code points U+4E00 to U+9FFF.
IsCJK(c) == c >= 19968 /\ c <= 40959

\* The class of the trailing-punctuation pattern of normalize_for_compare:
\* ideographic full stop, fullwidth ! and ?, ellipsis, and ASCII . ! ?
TerminalPunct == {12290, 65281, 65311, 8230, 46, 33, 63}

\* The class of CLAUSE_SPLIT_RE: the three ideographic sentence marks, the
\* fullwidth and ASCII semicolon, ASCII . ! ? and the newline.
ClauseDelims == {12290, 65281, 65311, 65307, 59, 46, 33, 63, 10}

\* The number of leading TRUEs of a sequence of booleans.
PrefixLen(flags) ==
    IF \A d \in 1..Len(flags) : flags[d] THEN Len(flags)
    ELSE (CHOOSE d \in 1..Len(flags) :
               /\ ~flags[d]
               /\ \A e \in 1..(d - 1) : flags[e]) - 1

\* str.lstrip()
LStrip(s) ==
    SubSeq(s, PrefixLen([d \in 1..Len(s) |-> IsSpace(s[d])]) + 1, Len(s))

\* str.rstrip()
RStrip(s) ==
    SubSeq(s, 1, Len(s) - PrefixLen([d \in 1..Len(s) |->
                                        IsSpace(s[Len(s) + 1 - d])]))

\* str.strip()
Strip(s) == RStrip(LStrip(s))

\* text.replace("\r\n", "\n").replace("\r", "\n"): every CR LF pair and every
\* remaining CR becomes one LF (the LF of a pair is dropped, every CR turns
\* into LF).
UnifyNewlines(s) ==
    LET marked == [i \in 1..Len(s) |->
                      IF s[i] = 10 /\ i > 1 /\ s[i - 1] = 13 THEN -1
                      ELSE IF s[i] = 13 THEN 10
                      ELSE s[i]]
    IN  SelectSeq(marked, LAMBDA c : c # -1)

\* re.sub(r"\s+", " ", t): each maximal run of whitespace becomes one space
\* (its first character turns into a space, the others are dropped).
CollapseSpaces(s) ==
    LET marked == [i \in 1..Len(s) |->
                      IF IsSpace(s[i])
                      THEN IF i > 1 /\ IsSpace(s[i - 1]) THEN -1 ELSE 32
                      ELSE s[i]]
    IN  SelectSeq(marked, LAMBDA c : c # -1)

\* re.sub(r"\s+", "", t)
RemoveSpaces(s) == SelectSeq(s, LAMBDA c : ~IsSpace(c))

\* re.sub(r"[...]+$", "", t) on a text without newlines: drop the trailing run
\* of terminal punctuation.
StripTerminal(s) ==
    SubSeq(s, 1, Len(s) - PrefixLen([d \in 1..Len(s) |->
                                        s[Len(s) + 1 - d] \in TerminalPunct]))

mostly_cjk(text) ==
    IF text = <<>> THEN FALSE
    ELSE LET cjk == Len(SelectSeq(text, IsCJK))
         IN  10 * cjk >= 3 * Len(text)

normalize_for_compare(text) ==
    IF text = <<>> THEN <<>>
    ELSE LET t1 == CollapseSpaces(Strip(UnifyNewlines(text)))
             t2 == IF mostly_cjk(t1) THEN RemoveSpaces(t1) ELSE t1
         IN  StripTerminal(t2)

\* CLAUSE_SPLIT_RE.split(text): the pieces between maximal runs of delimiters
\* (an empty piece at either end when the text starts or ends with a
\* delimiter, and one empty piece for the empty text, as re.split returns
\* them).
SplitOnDelims(s) ==
    IF s = <<>> THEN << <<>> >>
    ELSE LET n == Len(s)
             IsDelim(i) == s[i] \in ClauseDelims
             starts == {i \in 1..n : ~IsDelim(i) /\ (i = 1 \/ IsDelim(i - 1))}
             StartNo(k) == CHOOSE i \in starts :
                              Cardinality({j \in starts : j <= i}) = k
             Piece(i) == SubSeq(s, i, i - 1 +
                            PrefixLen([d \in 1..(n - i + 1) |->
                                          ~IsDelim(i + d - 1)]))
             edge == << <<>> >>
         IN  (IF IsDelim(1) THEN edge ELSE <<>>)
                \o [k \in 1..Cardinality(starts) |-> Piece(StartNo(k))]
                \o (IF IsDelim(n) THEN edge ELSE <<>>)

StripEach(ps) == [k \in 1..Len(ps) |-> Strip(ps[k])]

split_clauses(text) ==
    IF text = <<>> THEN <<>>
    ELSE LET clauses == SelectSeq(StripEach(SplitOnDelims(text)),
                                  LAMBDA c : c # <<>>)
         IN  IF clauses # <<>> THEN clauses ELSE <<Strip(text)>>

\* Python's "a in b" on strings.
IsSubstring(a, b) ==
    \E i \in 0..(Len(b) - Len(a)) : SubSeq(b, i + 1, i + Len(a)) = a

(***************************************************************************)
(* difflib.SequenceMatcher(None, a, b).ratio(): no junk function, autojunk *)
(* left at its default (True).  Positions are 0-based and ranges half      *)
(* open, as in difflib.                                                    *)
(***************************************************************************)

\* __chain_b: when b has 200 elements or more, every element that occurs
\* more than len(b) // 100 + 1 times in b is popular and leaves the index b2j.
bpopular(b) ==
    IF Len(b) < 200 THEN {}
    ELSE LET ntest == (Len(b) \div 100) + 1
         IN  {c \in {b[j] : j \in 1..Len(b)} :
                 Cardinality({j \in 1..Len(b) : b[j] = c}) > ntest}

\* The length of the common run of a from i and b from j inside the windows.
RunLen(a, b, i, j, ahi, bhi) ==
    PrefixLen([d \in 1..(IF ahi - i <= bhi - j THEN ahi - i ELSE bhi - j) |->
                  a[i + d] = b[j + d]])

\* The same, the run ending before the first popular element (the j2len
\* chain of find_longest_match follows the index b2j only).
IndexedRunLen(a, b, popular, i, j, ahi, bhi) ==
    PrefixLen([d \in 1..(IF ahi - i <= bhi - j THEN ahi - i ELSE bhi - j) |->
                  a[i + d] = b[j + d] /\ b[j + d] \notin popular])

\* The length of the common run of a before i and b before j.
BackRunLen(a, b, i, j, alo, blo) ==
    PrefixLen([d \in 1..(IF i - alo <= j - blo THEN i - alo ELSE j - blo) |->
                  a[i + 1 - d] = b[j + 1 - d]])

\* find_longest_match: <<i, j, k>>.  First the longest block of indexed (not
\* popular) elements with a[i:i+k] = b[j:j+k] in the windows; of those the
\* one starting earliest in a, and of those the one starting earliest in b;
\* <<alo, blo, 0>> when there is none.  Then the block is extended by the
\* equal elements before it and by the equal elements after it, popular or
\* not.
find_longest_match(a, b, alo, ahi, blo, bhi) ==
    LET popular == bpopular(b)
        Runs == {<<p[1], p[2],
                   IndexedRunLen(a, b, popular, p[1], p[2], ahi, bhi)>> :
                    p \in {q \in (alo..(ahi - 1)) \X (blo..(bhi - 1)) :
                              /\ a[q[1] + 1] = b[q[2] + 1]
                              /\ b[q[2] + 1] \notin popular}}
        best == IF Runs = {} THEN <<alo, blo, 0>>
                ELSE CHOOSE p \in Runs :
                        \A q \in Runs :
                           \/ p[3] > q[3]
                           \/ p[3] = q[3] /\ p[1] < q[1]
                           \/ p[3] = q[3] /\ p[1] = q[1] /\ p[2] <= q[2]
        back == BackRunLen(a, b, best[1], best[2], alo, blo)
        besti == best[1] - back
        bestj == best[2] - back
        size == best[3] + back
    IN  <<besti, bestj,
          size + RunLen(a, b, besti + size, bestj + size, ahi, bhi)>>

\* The total size of get_matching_blocks(): the longest block, then the same
\* to its left and to its right.
RECURSIVE MatchingSize(_, _, _, _, _, _)
MatchingSize(a, b, alo, ahi, blo, bhi) ==
    LET m == find_longest_match(a, b, alo, ahi, blo, bhi)
        i == m[1]
        j == m[2]
        k == m[3]
    IN  IF k = 0 THEN 0
        ELSE k + (IF alo < i /\ blo < j
                  THEN MatchingSize(a, b, alo, i, blo, j) ELSE 0)
               + (IF i + k < ahi /\ j + k < bhi
                  THEN MatchingSize(a, b, i + k, ahi, j + k, bhi) ELSE 0)

\* SequenceMatcher(None, a, b).ratio() >= pct / 100
RatioAtLeast(a, b, pct) ==
    LET total == Len(a) + Len(b)
    IN  IF total = 0 THEN 100 >= pct
        ELSE 200 * MatchingSize(a, b, 0, Len(a), 0, Len(b)) >= pct * total

(***************************************************************************)
(* Similarity primitives and the duplicate classifier.                     *)
(***************************************************************************)

Min(x, y) == IF x <= y THEN x ELSE y

Abs(x) == IF x < 0 THEN -x ELSE x

\* Mutant: each range is widened by tol at both ends.
ranges_overlap_both_ends(a, b, tol) ==
    IF a = <<>> \/ b = <<>> THEN FALSE
    ELSE ~((a[2] + tol) < (b[1] - tol) \/ (b[2] + tol) < (a[1] - tol))

\* a, b are locations: <<>> is (None, None).
ranges_overlap(a, b, tol) ==
    IF a = <<>> \/ b = <<>> THEN FALSE
    ELSE LET a1 == a[1]
             a2 == a[2]
             b1 == b[1]
             b2 == b[2]
         IN  ~((a2 + tol) < b1 \/ (b2 + tol) < a1)

very_close(a, b, ratio) ==
    IF a = <<>> \/ b = <<>> THEN FALSE
    ELSE IF Min(Len(a), Len(b)) < 8 THEN a = b
    ELSE RatioAtLeast(a, b, ratio)

clause_based_match(a_clauses, b_clauses, min_len, ratio) ==
    \E x \in 1..Len(a_clauses) : \E y \in 1..Len(b_clauses) :
        LET ca == a_clauses[x]
            cb == b_clauses[y]
        IN  /\ Len(ca) >= min_len
            /\ Len(cb) >= min_len
            /\ \/ IsSubstring(ca, cb)
               \/ IsSubstring(cb, ca)
               \/ RatioAtLeast(ca, cb, ratio)

is_subset(a, b, min_len) ==
    IF a = <<>> \/ b = <<>> THEN FALSE
    ELSE IF Min(Len(a), Len(b)) < min_len THEN FALSE
    ELSE IsSubstring(a, b) \/ IsSubstring(b, a)

\* time_close of is_duplicate: both timestamps present and within time_tol.
TimeClose(ta, tb, time_tol) ==
    ta # <<>> /\ tb # <<>> /\ Abs(ta[1] - tb[1]) <= time_tol

\* Mutant: with overlapping locations the near-equality threshold is 0.90
\* whether or not the timestamps are close.
is_duplicate_overlap_90(c, k, time_tol, clause_min_len) ==
    LET a == c.norm
        b == k.norm
        ov == ranges_overlap(c.loc, k.loc, 8)
        time_close == TimeClose(c.timestamp, k.timestamp, time_tol)
        clause_match ==
            clause_based_match(c.clauses, k.clauses, clause_min_len,
                               IF time_close THEN 88 ELSE 92)
    IN  IF a = <<>> \/ b = <<>> THEN FALSE
        ELSE IF a = b THEN TRUE
        ELSE IF ov
             THEN \/ clause_match
                  \/ is_subset(a, b, 12)
                  \/ very_close(a, b, 90)
             ELSE \/ clause_match
                  \/ is_subset(a, b, IF time_close THEN 10 ELSE 16)
                  \/ very_close(a, b, IF ~time_close THEN 95 ELSE 92)

is_duplicate(cur, kept, time_tol, clause_min_len) ==
    LET a == cur.norm
        b == kept.norm
        overlap == ranges_overlap(cur.loc, kept.loc, 8)
        time_close == TimeClose(cur.timestamp, kept.timestamp, time_tol)
        clause_match ==
            clause_based_match(cur.clauses, kept.clauses, clause_min_len,
                               IF time_close THEN 88 ELSE 92)
    IN  IF a = <<>> \/ b = <<>> THEN FALSE
        ELSE IF a = b THEN TRUE
        ELSE IF overlap
             THEN \/ clause_match
                  \/ is_subset(a, b, 12)
                  \/ very_close(a, b, IF time_close THEN 90 ELSE 92)
             ELSE \/ clause_match
                  \/ is_subset(a, b, IF time_close THEN 10 ELSE 16)
                  \/ very_close(a, b, IF ~time_close THEN 95 ELSE 92)

(***************************************************************************)
(* Entries.  parse_entry derives norm and clauses from the body; the kind, *)
(* the location and the timestamp are what parse_type, parse_loc and       *)
(* parse_timestamp_to_epoch read from the metadata line (not modelled:     *)
(* each template below gives the line and the values it parses to, with    *)
(* the epoch taken in UTC).                                                *)
(***************************************************************************)

\* The fields parse_entry derives from the body, for a record of the export
\* at position idx.
parse_entry(tpl, idx) ==
    [idx       |-> idx,
     title     |-> tpl.title,
     meta      |-> tpl.meta,
     type      |-> tpl.type,
     loc       |-> tpl.loc,
     timestamp |-> tpl.timestamp,
     body      |-> tpl.body,
     norm      |-> normalize_for_compare(tpl.body),
     clauses   |-> split_clauses(normalize_for_compare(tpl.body))]

\* Bodies, as parse_entry leaves them (trimmed).
BodyS10 == <<97, 98, 99, 100, 101, 102, 103, 104, 105, 106>>             \* abcdefghij
BodyS10Dot == <<97, 98, 99, 100, 101, 102, 103, 104, 105, 106, 46>>      \* abcdefghij.
BodyS13 == <<97, 98, 99, 100, 101, 102, 103, 104, 105, 106, 107, 108, 109>> \* abcdefghijklm
BodyDots == <<46, 46, 46>>                                                \* ...
BodyBangs == <<33, 63>>                                                   \* !?
BodyP == <<97, 97, 97, 97, 98, 98, 97, 97, 97, 97>>                       \* aaaabbaaaa
BodyQ == <<98, 97, 97, 97, 97, 98, 97, 97, 97, 97>>                       \* baaaabaaaa
BodyK == <<97, 98, 99, 100, 101, 102, 103, 104, 105, 106, 107>>           \* abcdefghijk
BodyX == <<97, 98, 99, 100, 101, 102, 103, 104, 105, 106, 120>>           \* abcdefghijx
BodyFox == <<116, 104, 101, 32, 113, 117, 105, 99, 107, 32, 98, 114, 111, 119, 110, 32, 102, 111, 120>> \* the quick brown fox
BodyFux == <<116, 104, 101, 32, 113, 117, 105, 99, 107, 32, 98, 114, 111, 119, 110, 32, 102, 117, 120, 32, 45>> \* the quick brown fux -
BodyCjk == <<20013, 32, 25991, 12290>>                                    \* U+4E2D, space, U+6587, U+3002

\* Two bodies of 202 characters: a digit, then a..z A..X twice, another digit,
\* then a..z A..X twice again.  Every letter occurs four times in each.
\* BodyLong1 has the digits 1 and 3, BodyLong2 the digits 2 and 4.
BodyLong1 ==
    <<49, 97, 98, 99, 100, 101, 102, 103, 104, 105, 106, 107, 108, 109, 110,
      111, 112, 113, 114, 115, 116, 117, 118, 119, 120, 121, 122, 65, 66, 67,
      68, 69, 70, 71, 72, 73, 74, 75, 76, 77, 78, 79, 80, 81, 82, 83, 84, 85,
      86, 87, 88, 97, 98, 99, 100, 101, 102, 103, 104, 105, 106, 107, 108,
      109, 110, 111, 112, 113, 114, 115, 116, 117, 118, 119, 120, 121, 122,
      65, 66, 67, 68, 69, 70, 71, 72, 73, 74, 75, 76, 77, 78, 79, 80, 81, 82,
      83, 84, 85, 86, 87, 88, 51, 97, 98, 99, 100, 101, 102, 103, 104, 105,
      106, 107, 108, 109, 110, 111, 112, 113, 114, 115, 116, 117, 118, 119,
      120, 121, 122, 65, 66, 67, 68, 69, 70, 71, 72, 73, 74, 75, 76, 77, 78,
      79, 80, 81, 82, 83, 84, 85, 86, 87, 88, 97, 98, 99, 100, 101, 102, 103,
      104, 105, 106, 107, 108, 109, 110, 111, 112, 113, 114, 115, 116, 117,
      118, 119, 120, 121, 122, 65, 66, 67, 68, 69, 70, 71, 72, 73, 74, 75, 76,
      77, 78, 79, 80, 81, 82, 83, 84, 85, 86, 87, 88>>

BodyLong2 ==
    <<50, 97, 98, 99, 100, 101, 102, 103, 104, 105, 106, 107, 108, 109, 110,
      111, 112, 113, 114, 115, 116, 117, 118, 119, 120, 121, 122, 65, 66, 67,
      68, 69, 70, 71, 72, 73, 74, 75, 76, 77, 78, 79, 80, 81, 82, 83, 84, 85,
      86, 87, 88, 97, 98, 99, 100, 101, 102, 103, 104, 105, 106, 107, 108,
      109, 110, 111, 112, 113, 114, 115, 116, 117, 118, 119, 120, 121, 122,
      65, 66, 67, 68, 69, 70, 71, 72, 73, 74, 75, 76, 77, 78, 79, 80, 81, 82,
      83, 84, 85, 86, 87, 88, 52, 97, 98, 99, 100, 101, 102, 103, 104, 105,
      106, 107, 108, 109, 110, 111, 112, 113, 114, 115, 116, 117, 118, 119,
      120, 121, 122, 65, 66, 67, 68, 69, 70, 71, 72, 73, 74, 75, 76, 77, 78,
      79, 80, 81, 82, 83, 84, 85, 86, 87, 88, 97, 98, 99, 100, 101, 102, 103,
      104, 105, 106, 107, 108, 109, 110, 111, 112, 113, 114, 115, 116, 117,
      118, 119, 120, 121, 122, 65, 66, 67, 68, 69, 70, 71, 72, 73, 74, 75, 76,
      77, 78, 79, 80, 81, 82, 83, 84, 85, 86, 87, 88>>

Tpl(title, meta, type, loc, timestamp, body) ==
    [title |-> title, meta |-> meta, type |-> type, loc |-> loc,
     timestamp |-> timestamp, body |-> body]

\* The records the export is drawn from.
Pool ==
    << Tpl("BookA", "- Your Highlight on Location 100 | Added on 1970-01-01 00:16:40",
           "highlight", <<100, 100>>, <<1000>>, BodyS10),
       Tpl("BookA", "- Your Highlight on Location 200 | Added on 1970-01-01 01:23:20",
           "highlight", <<200, 200>>, <<5000>>, BodyS10Dot),
       Tpl("BookA", "- Your Highlight on Location 300 | Added on 1970-01-01 01:25:00",
           "highlight", <<300, 300>>, <<5100>>, BodyS13),
       Tpl("BookA", "- Your Highlight on page 3",
           "highlight", <<>>, <<>>, BodyDots),
       Tpl("BookA", "- Your Highlight on Location 100 | Added on 1970-01-01 00:16:40",
           "highlight", <<100, 100>>, <<1000>>, <<>>),
       Tpl("BookA", "- Your Highlight on page 4 | Added on 1970-01-01 01:23:20",
           "highlight", <<>>, <<5000>>, BodyBangs),
       Tpl("BookA", "- Your Highlight on Location 100 | Added on 1970-01-01 00:16:41",
           "highlight", <<100, 100>>, <<1001>>, BodyP),
       Tpl("BookA", "- Your Highlight on Location 105 | Added on 1970-01-01 00:20:00",
           "highlight", <<105, 105>>, <<1200>>, BodyQ),
       Tpl("BookA", "- Your Note on Location 100 | Added on 1970-01-01 00:16:40",
           "note", <<100, 100>>, <<1000>>, BodyS10),
       Tpl("BookA", "- Your Note on page 5 | Added on 1970-01-01 01:23:20",
           "note", <<>>, <<5000>>, BodyS10Dot),
       Tpl("BookA", "- Your Bookmark on Location 50 | Added on 1970-01-01 00:16:40",
           "bookmark", <<50, 50>>, <<1000>>, <<>>),
       Tpl("BookA", "- Your Bookmark on Location 50 | Added on 1970-01-01 00:16:40",
           "bookmark", <<50, 50>>, <<1000>>, BodyS10),
       Tpl("BookA", "- Your Bookmark on Location 60 | Added on 1970-01-01 00:20:00",
           "bookmark", <<60, 60>>, <<1200>>, BodyS10),
       Tpl("BookA", "- Location 100 | Added on 1970-01-01 00:16:40",
           "unknown", <<100, 100>>, <<1000>>, BodyS10),
       Tpl("BookB", "- Your Highlight on Location 100 | Added on 1970-01-01 00:16:40",
           "highlight", <<100, 100>>, <<1000>>, BodyS10),
       Tpl("BookA", "- Your Highlight on Location 100 | Added on 1970-01-01 00:16:40",
           "highlight", <<100, 100>>, <<1000>>, BodyLong1),
       Tpl("BookA", "- Your Highlight on Location 102 | Added on 1970-01-01 00:16:50",
           "highlight", <<102, 102>>, <<1010>>, BodyLong2) >>

(***************************************************************************)
(* dedup_by_book as a state machine: one step for the grouping loop, one   *)
(* per document for the start of its scan, one per entry of the reversed   *)
(* scan, one per document for the three sorts and the concatenation.       *)
(***************************************************************************)

\* Parameters of dedup_by_book (their defaults, which main passes on).
DefaultTimeTol == 300
DefaultClauseMinLen == 12

\* Bounds of the model.
MaxEntries == 3

VARIABLES
    entries,    \* the argument of dedup_by_book: a list of entries
    pc,         \* the position in the program
    books,      \* the keys of by_book in insertion order
    by_book,    \* title -> the entries of that title, in list order
    bi,         \* the index in books of the document being processed
    ci,         \* the index in es of the entry the reversed scan reads next
    kept_h,     \* the running kept lists of the current document
    kept_n,
    kept_b,
    result,     \* title -> the output sequence of that document
    run,        \* 1 for the first call, 2 for the call on the first result
    first,      \* the result of the first call
    first_in,   \* the argument of the first call
    cur,        \* classifier check: the pair and the verdict
    kept,
    verdict,
    loc_a,      \* overlap check: the two ranges and the answer
    loc_b,
    overlap

vars == <<entries, pc, books, by_book, bi, ci, kept_h, kept_n, kept_b, result,
          run, first, first_in, cur, kept, verdict, loc_a, loc_b, overlap>>

dedupVars == <<entries, pc, books, by_book, bi, ci, kept_h, kept_n, kept_b,
               result, run, first, first_in>>
pairVars == <<cur, kept, verdict>>
overlapVars == <<loc_a, loc_b, overlap>>

Range(f) == {f[x] : x \in DOMAIN f}

\* The distinct titles of a list in the order of their first appearance: the
\* key order of by_book.
RECURSIVE TitleOrder(_)
TitleOrder(es) ==
    IF es = <<>> THEN <<>>
    ELSE LET init == TitleOrder(SubSeq(es, 1, Len(es) - 1))
             t == es[Len(es)].title
         IN  IF t \in Range(init) THEN init ELSE Append(init, t)

\* Python's ordering of tuples of integers.
RECURSIVE TupleLess(_, _)
TupleLess(k1, k2) ==
    IF k1 = <<>> THEN k2 # <<>>
    ELSE IF k2 = <<>> THEN FALSE
    ELSE IF Head(k1) # Head(k2) THEN Head(k1) < Head(k2)
    ELSE TupleLess(Tail(k1), Tail(k2))

\* Mutant: entries without a location are ordered oldest first.
sort_key_oldest_first(x) ==
    IF x.loc = <<>>
    THEN LET ts == IF x.timestamp = <<>> \/ x.timestamp = <<0>>
                   THEN 0 ELSE x.timestamp[1]
         IN  <<1, 0, ts, x.idx>>
    ELSE <<0, x.loc[1], x.idx>>

\* sort_key.  The first component is written as the pair <<q, r>> with
\* value q * 10^12 + r, so a location start s (below 10^12, as every integer
\* of this model is) is <<0, s>> and the constant 10**12 is <<1, 0>>.
sort_key(x) ==
    IF x.loc = <<>>
    THEN LET ts == IF x.timestamp = <<>> \/ x.timestamp = <<0>>
                   THEN 0 ELSE x.timestamp[1]
         IN  <<1, 0, -ts, x.idx>>
    ELSE <<0, x.loc[1], x.idx>>

\* list.sort(key=sort_key): stable, ascending.
RECURSIVE InsertByKey(_, _)
InsertByKey(sorted, x) ==
    IF sorted = <<>> THEN <<x>>
    ELSE IF TupleLess(sort_key(x), sort_key(sorted[Len(sorted)]))
         THEN Append(InsertByKey(SubSeq(sorted, 1, Len(sorted) - 1), x),
                     sorted[Len(sorted)])
         ELSE Append(sorted, x)

RECURSIVE SortByKey(_)
SortByKey(xs) ==
    IF xs = <<>> THEN <<>>
    ELSE InsertByKey(SortByKey(SubSeq(xs, 1, Len(xs) - 1)), xs[Len(xs)])

\* The entry the scan of the current document reads next.
es == by_book[books[bi]]
\* Mutant: the scan reads the document's entries first to last.
Current_forward == es[Len(es) + 1 - ci]

Current == es[ci]

\* Mutant: a bookmark is not filtered (save_md has a placeholder for it).
EmptyBody_but_bookmarks(e) ==
    (e.body = <<>> \/ Strip(e.body) = <<>>) /\ e.type # "bookmark"

\* not cur["body"] or not cur["body"].strip()
EmptyBody(e) == e.body = <<>> \/ Strip(e.body) = <<>>

\* any(is_duplicate(cur, k, ...) for k in kept_list)
AnyDuplicate(e, kept_list) ==
    \E k \in Range(kept_list) :
        is_duplicate(e, k, DefaultTimeTol, DefaultClauseMinLen)

\* Mutant: the notes are compared by their raw bodies.
AnySameNorm_raw(e, kept_list) == \E k \in Range(kept_list) : e.body = k.body

AnySameNorm(e, kept_list) == \E k \in Range(kept_list) : e.norm = k.norm

AnySameMeta(e, kept_list) == \E k \in Range(kept_list) : e.meta = k.meta

\* The lists of up to MaxEntries records of the pool, numbered as main
\* numbers the parsed blocks.
Inputs ==
    UNION {{[i \in 1..n |-> parse_entry(Pool[f[i]], i - 1)] :
                f \in [1..n -> 1..Len(Pool)]} : n \in 1..MaxEntries}

NoEntry == [idx |-> 0, title |-> "", meta |-> "", type |-> "unknown",
            loc |-> <<>>, timestamp |-> <<>>, body |-> <<>>, norm |-> <<>>,
            clauses |-> <<>>]

PairIdle == cur = NoEntry /\ kept = NoEntry /\ verdict = FALSE
OverlapIdle == loc_a = <<>> /\ loc_b = <<>> /\ overlap = FALSE

Init ==
    /\ entries \in Inputs
    /\ pc = "group"
    /\ books = <<>>
    /\ by_book = <<>>
    /\ bi = 0
    /\ ci = 0
    /\ kept_h = <<>>
    /\ kept_n = <<>>
    /\ kept_b = <<>>
    /\ result = <<>>
    /\ run = 1
    /\ first = <<>>
    /\ first_in = entries
    /\ PairIdle
    /\ OverlapIdle

\* Lines 256-260: the grouping loop.
Group ==
    /\ pc = "group"
    /\ books' = TitleOrder(entries)
    /\ by_book' = [t \in Range(TitleOrder(entries)) |->
                      SelectSeq(entries, LAMBDA e : e.title = t)]
    /\ bi' = 1
    /\ pc' = "book"
    /\ UNCHANGED <<entries, ci, kept_h, kept_n, kept_b, result, run, first,
                   first_in, pairVars, overlapVars>>

\* Lines 261-265: the next document; its kept lists start empty and the scan
\* starts at the last entry.
BeginBook ==
    /\ pc = "book"
    /\ bi <= Len(books)
    /\ kept_h' = <<>>
    /\ kept_n' = <<>>
    /\ kept_b' = <<>>
    /\ ci' = Len(by_book[books[bi]])
    /\ pc' = "scan"
    /\ UNCHANGED <<entries, books, by_book, bi, result, run, first, first_in,
                   pairVars, overlapVars>>

Scanning == pc = "scan" /\ ci >= 1

\* Lines 267-272: an entry with an empty body is skipped.
SkipEmpty ==
    /\ Scanning
    /\ EmptyBody(Current)
    /\ ci' = ci - 1
    /\ UNCHANGED <<entries, pc, books, by_book, bi, kept_h, kept_n, kept_b,
                   result, run, first, first_in, pairVars, overlapVars>>

\* Lines 274-277.
ScanHighlight ==
    /\ Scanning
    /\ ~EmptyBody(Current)
    /\ Current.type = "highlight"
    /\ kept_h' = IF AnyDuplicate(Current, kept_h) THEN kept_h
                 ELSE Append(kept_h, Current)
    /\ ci' = ci - 1
    /\ UNCHANGED <<entries, pc, books, by_book, bi, kept_n, kept_b, result,
                   run, first, first_in, pairVars, overlapVars>>

\* Mutant: a note is also tested against the kept highlights.
ScanNote_shared ==
    /\ Scanning
    /\ ~EmptyBody(Current)
    /\ Current.type = "note"
    /\ kept_n' = IF AnySameNorm(Current, kept_h \o kept_n) THEN kept_n
                 ELSE Append(kept_n, Current)
    /\ ci' = ci - 1
    /\ UNCHANGED <<entries, pc, books, by_book, bi, kept_h, kept_b, result,
                   run, first, first_in, pairVars, overlapVars>>

\* Lines 278-280.
ScanNote ==
    /\ Scanning
    /\ ~EmptyBody(Current)
    /\ Current.type = "note"
    /\ kept_n' = IF AnySameNorm(Current, kept_n) THEN kept_n
                 ELSE Append(kept_n, Current)
    /\ ci' = ci - 1
    /\ UNCHANGED <<entries, pc, books, by_book, bi, kept_h, kept_b, result,
                   run, first, first_in, pairVars, overlapVars>>

\* Mutant: a bookmark is tested against the kept notes.
ScanBookmark_notes ==
    /\ Scanning
    /\ ~EmptyBody(Current)
    /\ Current.type = "bookmark"
    /\ kept_b' = IF AnySameMeta(Current, kept_n) THEN kept_b
                 ELSE Append(kept_b, Current)
    /\ ci' = ci - 1
    /\ UNCHANGED <<entries, pc, books, by_book, bi, kept_h, kept_n, result,
                   run, first, first_in, pairVars, overlapVars>>

\* Lines 281-283.
ScanBookmark ==
    /\ Scanning
    /\ ~EmptyBody(Current)
    /\ Current.type = "bookmark"
    /\ kept_b' = IF AnySameMeta(Current, kept_b) THEN kept_b
                 ELSE Append(kept_b, Current)
    /\ ci' = ci - 1
    /\ UNCHANGED <<entries, pc, books, by_book, bi, kept_h, kept_n, result,
                   run, first, first_in, pairVars, overlapVars>>

\* Lines 284-287: any other kind is tested against, and appended to, kept_h.
ScanUnknown ==
    /\ Scanning
    /\ ~EmptyBody(Current)
    /\ Current.type \notin {"highlight", "note", "bookmark"}
    /\ kept_h' = IF AnyDuplicate(Current, kept_h) THEN kept_h
                 ELSE Append(kept_h, Current)
    /\ ci' = ci - 1
    /\ UNCHANGED <<entries, pc, books, by_book, bi, kept_n, kept_b, result,
                   run, first, first_in, pairVars, overlapVars>>

\* Lines 289-300: the three lists are sorted, each on its own, and
\* concatenated.
FinishBook ==
    /\ pc = "scan"
    /\ ci = 0
    /\ kept_h' = SortByKey(kept_h)
    /\ kept_n' = SortByKey(kept_n)
    /\ kept_b' = SortByKey(kept_b)
    /\ result' = [t \in DOMAIN result \cup {books[bi]} |->
                     IF t = books[bi]
                     THEN SortByKey(kept_h) \o SortByKey(kept_n) \o SortByKey(kept_b)
                     ELSE result[t]]
    /\ bi' = bi + 1
    /\ pc' = "book"
    /\ UNCHANGED <<entries, books, by_book, ci, run, first, first_in,
                   pairVars, overlapVars>>

\* Line 303.
Return ==
    /\ pc = "book"
    /\ bi > Len(books)
    /\ pc' = "done"
    /\ UNCHANGED <<entries, books, by_book, bi, ci, kept_h, kept_n, kept_b,
                   result, run, first, first_in, pairVars, overlapVars>>

\* The entries of a result, document after document, each in output order.
RECURSIVE Flatten(_, _)
Flatten(order, res) ==
    IF order = <<>> THEN <<>>
    ELSE res[Head(order)] \o Flatten(Tail(order), res)

\* A second call of dedup_by_book, on the entries of the first result.
Rerun ==
    /\ pc = "done"
    /\ run = 1
    /\ first' = result
    /\ entries' = Flatten(books, result)
    /\ run' = 2
    /\ pc' = "group"
    /\ books' = <<>>
    /\ by_book' = <<>>
    /\ bi' = 0
    /\ ci' = 0
    /\ kept_h' = <<>>
    /\ kept_n' = <<>>
    /\ kept_b' = <<>>
    /\ result' = <<>>
    /\ UNCHANGED <<first_in, pairVars, overlapVars>>

Next ==
    \/ Group
    \/ BeginBook
    \/ SkipEmpty
    \/ ScanHighlight
    \/ ScanNote
    \/ ScanBookmark
    \/ ScanUnknown
    \/ FinishBook
    \/ Return
    \/ Rerun

Spec == Init /\ [][Next]_vars

DedupIdle ==
    /\ entries = <<>>
    /\ books = <<>>
    /\ by_book = <<>>
    /\ bi = 0
    /\ ci = 0
    /\ kept_h = <<>>
    /\ kept_n = <<>>
    /\ kept_b = <<>>
    /\ result = <<>>
    /\ run = 1
    /\ first = <<>>
    /\ first_in = <<>>

(***************************************************************************)
(* The classifier on its own: is_duplicate applied to a pair of entries.   *)
(***************************************************************************)

\* Metadata lines with the location and the epoch they parse to.  Against
\* the first: the second overlaps and is close in time, the third overlaps
\* only, the fourth is close in time only, the fifth neither, and the sixth
\* has neither a location nor a timestamp.
Signal(meta, loc, timestamp) == [meta |-> meta, loc |-> loc, timestamp |-> timestamp]

PairSignals ==
    { Signal("- Your Highlight on Location 100-110 | Added on 1970-01-01 00:16:40",
             <<100, 110>>, <<1000>>),
      Signal("- Your Highlight on Location 102-115 | Added on 1970-01-01 00:20:00",
             <<102, 115>>, <<1200>>),
      Signal("- Your Highlight on Location 105 | Added on 1970-01-01 01:23:20",
             <<105, 105>>, <<5000>>),
      Signal("- Your Highlight on Location 300 | Added on 1970-01-01 00:18:20",
             <<300, 300>>, <<1100>>),
      Signal("- Your Highlight on Location 400 | Added on 1970-01-01 02:30:00",
             <<400, 400>>, <<9000>>),
      Signal("- Your Highlight on page 7", <<>>, <<>>) }

PairBodies ==
    {BodyS10, BodyS10Dot, BodyS13, BodyDots, BodyP, BodyQ, BodyK, BodyX,
     BodyFox, BodyFux, BodyCjk, BodyLong1, BodyLong2}

PairEntries ==
    {parse_entry(Tpl("BookA", g.meta, "highlight", g.loc, g.timestamp, b), 0) :
        g \in PairSignals, b \in PairBodies}

InitPair ==
    /\ pc = "pair"
    /\ cur \in PairEntries
    /\ kept \in PairEntries
    /\ verdict = FALSE
    /\ DedupIdle
    /\ OverlapIdle

\* is_duplicate(cur, kept) with the default parameters.
Classify ==
    /\ pc = "pair"
    /\ verdict' = is_duplicate(cur, kept, DefaultTimeTol, DefaultClauseMinLen)
    /\ pc' = "classified"
    /\ UNCHANGED <<cur, kept, entries, books, by_book, bi, ci, kept_h, kept_n,
                   kept_b, result, run, first, first_in, overlapVars>>

NextPair == Classify

SpecPair == InitPair /\ [][NextPair]_vars

(***************************************************************************)
(* ranges_overlap on its own.                                              *)
(***************************************************************************)

MaxLoc == 20

\* (None, None), and every range parse_loc can return inside the bound:
\* start <= end.
Locations ==
    {<<>>} \cup {r \in (0..MaxLoc) \X (0..MaxLoc) : r[1] <= r[2]}

InitOverlap ==
    /\ pc = "ranges"
    /\ loc_a \in Locations
    /\ loc_b \in Locations
    /\ overlap = FALSE
    /\ DedupIdle
    /\ PairIdle

\* ranges_overlap(a, b, tol=8), as is_duplicate calls it.
CheckOverlap ==
    /\ pc = "ranges"
    /\ overlap' = ranges_overlap(loc_a, loc_b, 8)
    /\ pc' = "overlap_known"
    /\ UNCHANGED <<loc_a, loc_b, entries, books, by_book, bi, ci, kept_h,
                   kept_n, kept_b, result, run, first, first_in, pairVars>>

NextOverlap == CheckOverlap

SpecOverlap == InitOverlap /\ [][NextOverlap]_vars

(***************************************************************************)
(* Vocabulary of the properties.                                           *)
(***************************************************************************)

Done == pc = "done"

\* The kept list a kind is folded into: kept_h for highlight and for any
\* unrecognised kind, kept_n for note, kept_b for bookmark.
RetentionSet(type) ==
    IF type = "note" THEN "n" ELSE IF type = "bookmark" THEN "b" ELSE "h"

\* The test that drops e against an already kept k of its retention set.
DropTest(e, k) ==
    IF RetentionSet(e.type) = "n" THEN e.norm = k.norm
    ELSE IF RetentionSet(e.type) = "b" THEN e.meta = k.meta
    ELSE is_duplicate(e, k, DefaultTimeTol, DefaultClauseMinLen)

\* The output sequence of a document (empty when the document is absent).
OutputOf(res, t) == IF t \in DOMAIN res THEN res[t] ELSE <<>>

InOutput(e) == e \in Range(OutputOf(result, e.title))

Positions == 1..Len(entries)

\* Entries i < j of one document and one kind, both with a body.
SameKindPair(i, j) ==
    /\ i < j
    /\ entries[i].title = entries[j].title
    /\ entries[i].type = entries[j].type
    /\ ~EmptyBody(entries[i])
    /\ ~EmptyBody(entries[j])

(***************************************************************************)
(* C1.  Monotonic strictness: for a fixed pair of bodies, turning location *)
(* overlap on, or timestamp proximity on, with the other signal unchanged, *)
(* never turns a duplicate into a non-duplicate, in all four combinations. *)
(***************************************************************************)

OverlapOf(c, k) == ranges_overlap(c.loc, k.loc, 8)
CloseOf(c, k) == TimeClose(c.timestamp, k.timestamp, DefaultTimeTol)

\* The pair (c2, k2) has the bodies of (c1, k1) and exactly one more signal.
Corroborates(c1, k1, c2, k2) ==
    /\ c2.body = c1.body
    /\ k2.body = k1.body
    /\ \/ ~OverlapOf(c1, k1) /\ OverlapOf(c2, k2) /\ CloseOf(c2, k2) = CloseOf(c1, k1)
       \/ ~CloseOf(c1, k1) /\ CloseOf(c2, k2) /\ OverlapOf(c2, k2) = OverlapOf(c1, k1)

C1_MonotonicStrictness ==
    (pc = "classified" /\ verdict) =>
        \A c2 \in PairEntries : \A k2 \in PairEntries :
            Corroborates(cur, kept, c2, k2) =>
                is_duplicate(c2, k2, DefaultTimeTol, DefaultClauseMinLen)

(***************************************************************************)
(* C2.  Exact-duplicate collapse, as claimed: of two entries of one        *)
(* document and one kind (any of the four) that have bodies and identical  *)
(* normalized bodies, exactly one is kept, whatever their other fields.    *)
(***************************************************************************)

BothKept(i, j) == InOutput(entries[i]) /\ InOutput(entries[j])
OneKept(i, j) == InOutput(entries[i]) # InOutput(entries[j])

C2_ExactCollapse_AllKinds ==
    (Done /\ run = 1) =>
        \A i \in Positions : \A j \in Positions :
            (SameKindPair(i, j) /\ entries[i].norm = entries[j].norm) =>
                OneKept(i, j)

\* Entries i and j are the only entries with a body that their document
\* has in their retention set.
AloneInSet(i, j) ==
    \A l \in Positions \ {i, j} :
        ~ /\ entries[l].title = entries[i].title
          /\ RetentionSet(entries[l].type) = RetentionSet(entries[i].type)
          /\ ~EmptyBody(entries[l])

(***************************************************************************)
(* C2, amended.  Two such entries are never both kept when they are notes, *)
(* or highlights or unknowns whose shared normalized body is not empty,    *)
(* and exactly one of them is kept when their document holds no other      *)
(* entry with a body in their retention set.  Highlights and unknowns      *)
(* whose normalized body is empty are all kept.  Two such bookmarks are    *)
(* never both kept when their metadata lines are equal (exactly one is     *)
(* kept when the document holds no other bookmark with a body); when the   *)
(* lines differ they are both kept if the document holds no other bookmark *)
(* with a body, and in general each of them is kept exactly when no later  *)
(* bookmark with a body of the document has its metadata line.             *)
(***************************************************************************)

C2_ExactCollapse ==
    (Done /\ run = 1) =>
        \A i \in Positions : \A j \in Positions :
            (SameKindPair(i, j) /\ entries[i].norm = entries[j].norm) =>
                LET set == RetentionSet(entries[i].type)
                    alone == AloneInSet(i, j)
                    LaterSameMeta(x) ==
                        \E l \in Positions :
                            /\ l > x
                            /\ entries[l].title = entries[x].title
                            /\ entries[l].type = "bookmark"
                            /\ ~EmptyBody(entries[l])
                            /\ entries[l].meta = entries[x].meta
                IN  /\ (set = "n" \/ (set = "h" /\ entries[i].norm # <<>>)) =>
                           /\ ~BothKept(i, j)
                           /\ alone => OneKept(i, j)
                    /\ (set = "h" /\ entries[i].norm = <<>>) => BothKept(i, j)
                    /\ (set = "b" /\ entries[i].meta = entries[j].meta) =>
                           /\ ~BothKept(i, j)
                           /\ alone => OneKept(i, j)
                    /\ (set = "b" /\ entries[i].meta # entries[j].meta) =>
                           /\ alone => BothKept(i, j)
                           /\ InOutput(entries[i]) = ~LaterSameMeta(i)
                           /\ InOutput(entries[j]) = ~LaterSameMeta(j)

\* Two notes with different bodies and one normalized body, with a third
\* entry in the document: the later note alone is kept.
C2_Witness ==
    /\ Done
    /\ run = 1
    /\ Len(entries) = 3
    /\ SameKindPair(1, 2)
    /\ entries[1].type = "note"
    /\ entries[1].body # entries[2].body
    /\ entries[1].norm = entries[2].norm
    /\ ~InOutput(entries[1])
    /\ InOutput(entries[2])

(***************************************************************************)
(* C3.  Idempotence: dedup_by_book applied to the entries of its own       *)
(* result gives, for every document, the same sequence again.              *)
(***************************************************************************)

C3_Idempotent ==
    (Done /\ run = 2) =>
        \A t \in DOMAIN first : OutputOf(result, t) = first[t]

(***************************************************************************)
(* C4.  Kind and document isolation, as claimed: each of the four kinds    *)
(* has its own kept set, so an entry with a body that is dropped was       *)
(* dropped because of a kept entry of its own document and its own kind.   *)
(***************************************************************************)

C4_Isolation_PerKind ==
    Done =>
        \A i \in Positions :
            (~EmptyBody(entries[i]) /\ ~InOutput(entries[i])) =>
                \E k \in Range(OutputOf(result, entries[i].title)) :
                    /\ k.type = entries[i].type
                    /\ DropTest(entries[i], k)

(***************************************************************************)
(* C4, amended.  Highlights and unknowns share one kept set, notes and     *)
(* bookmarks have one each: the three running lists only ever hold entries *)
(* of the current document and of their own retention set, and an entry    *)
(* with a body that is dropped was dropped because of a kept entry of its  *)
(* own document and its own retention set.                                 *)
(***************************************************************************)

ListIsPure(kept_list, set) ==
    \A k \in Range(kept_list) :
        /\ RetentionSet(k.type) = set
        /\ bi \in 1..Len(books) => k.title = books[bi]

C4_Isolation ==
    /\ pc = "scan" =>
          /\ ListIsPure(kept_h, "h")
          /\ ListIsPure(kept_n, "n")
          /\ ListIsPure(kept_b, "b")
    /\ Done =>
          \A i \in Positions :
              (~EmptyBody(entries[i]) /\ ~InOutput(entries[i])) =>
                  \E k \in Range(OutputOf(result, entries[i].title)) :
                      /\ RetentionSet(k.type) = RetentionSet(entries[i].type)
                      /\ DropTest(entries[i], k)

\* A highlight and a note of one document with one normalized body are both
\* kept, and a highlight of another document with that normalized body too.
C4_Witness ==
    /\ Done
    /\ \E i \in Positions : \E j \in Positions : \E l \in Positions :
          /\ entries[i].type = "highlight"
          /\ entries[j].type = "note"
          /\ entries[l].type = "highlight"
          /\ entries[i].title = entries[j].title
          /\ entries[l].title # entries[i].title
          /\ entries[i].norm = entries[j].norm
          /\ entries[l].norm = entries[i].norm
          /\ entries[i].norm # <<>>
          /\ InOutput(entries[i])
          /\ InOutput(entries[j])
          /\ InOutput(entries[l])

(***************************************************************************)
(* C5.  Latest wins, as claimed: a dropped entry with a body was dropped   *)
(* because of a kept, later entry of its retention set, and of two         *)
(* mutually duplicate highlights or two notes with the same text only the  *)
(* later one survives.                                                     *)
(***************************************************************************)

DroppedForLater ==
    \A i \in Positions :
        (~EmptyBody(entries[i]) /\ ~InOutput(entries[i])) =>
            \E j \in Positions :
                /\ j > i
                /\ InOutput(entries[j])
                /\ entries[j].title = entries[i].title
                /\ RetentionSet(entries[j].type) = RetentionSet(entries[i].type)
                /\ DropTest(entries[i], entries[j])

\* Two highlights that are duplicates of each other, or two notes with the
\* same body.
MutualPair(i, j) ==
    /\ SameKindPair(i, j)
    /\ \/ /\ entries[i].type = "highlight"
          /\ DropTest(entries[i], entries[j])
          /\ DropTest(entries[j], entries[i])
       \/ /\ entries[i].type = "note"
          /\ entries[i].body = entries[j].body

C5_LatestWins_OnlyLater ==
    (Done /\ run = 1) =>
        /\ DroppedForLater
        /\ \A i \in Positions : \A j \in Positions :
              MutualPair(i, j) => ~InOutput(entries[i])

(***************************************************************************)
(* C5, amended.  The first part as claimed.  Of two such entries the two   *)
(* are never both kept; the earlier one is kept only if the later one was  *)
(* itself dropped because of a kept entry after it, which happens for      *)
(* highlights and never for notes.  While a document is scanned, every     *)
(* kept entry comes after the entry being read.                            *)
(***************************************************************************)

KeptAreLater ==
    \A k \in Range(kept_h) \cup Range(kept_n) \cup Range(kept_b) :
        \E p \in (ci + 1)..Len(es) : es[p] = k

C5_LatestWins ==
    /\ (pc = "scan" /\ run = 1) => KeptAreLater
    /\ (Done /\ run = 1) =>
          /\ DroppedForLater
          /\ \A i \in Positions : \A j \in Positions :
                MutualPair(i, j) =>
                    /\ ~BothKept(i, j)
                    /\ entries[i].type = "note" => ~InOutput(entries[i])
                    /\ InOutput(entries[i]) =>
                          \E l \in Positions :
                              /\ l > j
                              /\ InOutput(entries[l])
                              /\ DropTest(entries[j], entries[l])

\* Two highlights that are duplicates of each other, the later one kept and
\* the earlier one dropped.
C5_Witness ==
    /\ Done
    /\ run = 1
    /\ \E i \in Positions : \E j \in Positions :
          /\ MutualPair(i, j)
          /\ entries[i].type = "highlight"
          /\ entries[i].norm # entries[j].norm
          /\ ~InOutput(entries[i])
          /\ InOutput(entries[j])

(***************************************************************************)
(* C6.  Bookmark collapse, as claimed: a document whose entries are all    *)
(* bookmarks with one metadata line (one or more of them, with any bodies, *)
(* empty ones included) has exactly one bookmark in its output.            *)
(***************************************************************************)

OnlyBookmarksOneMeta ==
    /\ Len(entries) >= 1
    /\ \A i \in Positions :
          /\ entries[i].type = "bookmark"
          /\ entries[i].title = entries[1].title
          /\ entries[i].meta = entries[1].meta

C6_BookmarkCollapse_AnyBody ==
    (Done /\ OnlyBookmarksOneMeta) =>
        Len(OutputOf(result, entries[1].title)) = 1

(***************************************************************************)
(* C6, amended.  The output of such a document is exactly one bookmark,    *)
(* the last one that has a body, when some bookmark has a body, and is     *)
(* empty when every body is empty.                                         *)
(***************************************************************************)

C6_BookmarkCollapse ==
    (Done /\ OnlyBookmarksOneMeta) =>
        LET out == OutputOf(result, entries[1].title)
            withBody == {i \in Positions : ~EmptyBody(entries[i])}
        IN  IF withBody = {} THEN out = <<>>
            ELSE /\ Len(out) = 1
                 /\ \E i \in withBody :
                       /\ out[1] = entries[i]
                       /\ \A j \in withBody : j <= i

\* Three bookmarks with one metadata line, two of them with a body, collapse
\* to one.
C6_Witness ==
    /\ Done
    /\ run = 1
    /\ OnlyBookmarksOneMeta
    /\ Len(entries) = 3
    /\ Cardinality({i \in Positions : ~EmptyBody(entries[i])}) = 2
    /\ Len(OutputOf(result, entries[1].title)) = 1

\* The body of e is empty or holds nothing but whitespace.
BlankBody(e) == \A i \in DOMAIN e.body : IsSpace(e.body[i])

(***************************************************************************)
(* C7.  Empty-body filtering: no entry with an empty body is ever in a     *)
(* kept list or in an output sequence, whatever its kind (so no entry is   *)
(* ever tested against one), and a document all of whose entries have      *)
(* empty bodies maps to the empty sequence.                                *)
(***************************************************************************)

C7_EmptyBodyFiltered ==
    /\ \A k \in Range(kept_h) \cup Range(kept_n) \cup Range(kept_b) :
          ~BlankBody(k)
    /\ \A t \in DOMAIN result : \A k \in Range(result[t]) : ~BlankBody(k)
    /\ Done =>
          \A i \in Positions :
              (\A j \in Positions :
                  entries[j].title = entries[i].title => BlankBody(entries[j]))
                      => OutputOf(result, entries[i].title) = <<>>

\* A document that holds an empty highlight and an empty bookmark and nothing
\* else has an empty output, next to a document that keeps its entry.
C7_Witness ==
    /\ Done
    /\ run = 1
    /\ \E i \in Positions : \E j \in Positions : \E l \in Positions :
          /\ entries[i].type = "highlight"
          /\ entries[j].type = "bookmark"
          /\ BlankBody(entries[i])
          /\ BlankBody(entries[j])
          /\ entries[i].title = entries[j].title
          /\ entries[l].title # entries[i].title
          /\ InOutput(entries[l])
          /\ entries[i].title \in DOMAIN result
          /\ result[entries[i].title] = <<>>

(***************************************************************************)
(* C8.  Final ordering, as claimed: over the whole output sequence of a    *)
(* document, entries with a location come before entries without one,      *)
(* located entries are in non-decreasing (location start, index) order and *)
(* unlocated entries newest timestamp first, then by index.                *)
(***************************************************************************)

\* x.get("timestamp") or 0
TimestampOrZero(x) == IF x.timestamp = <<>> THEN 0 ELSE x.timestamp[1]

\* x may stand before y in the claimed order.
InOrder(x, y) ==
    IF x.loc # <<>> /\ y.loc # <<>>
    THEN \/ x.loc[1] < y.loc[1]
         \/ x.loc[1] = y.loc[1] /\ x.idx <= y.idx
    ELSE IF x.loc = <<>> /\ y.loc = <<>>
    THEN \/ TimestampOrZero(x) > TimestampOrZero(y)
         \/ TimestampOrZero(x) = TimestampOrZero(y) /\ x.idx <= y.idx
    ELSE x.loc # <<>>

C8_Ordering_AcrossKinds ==
    Done =>
        \A t \in DOMAIN result :
            \A i \in 1..Len(result[t]) : \A j \in 1..Len(result[t]) :
                i < j => InOrder(result[t][i], result[t][j])

(***************************************************************************)
(* C8, amended.  The output sequence is three runs, the kept highlights    *)
(* and unknowns, then the kept notes, then the kept bookmarks, and the     *)
(* claimed order holds inside each run (for location starts below 10^12),  *)
(* not across them.                                                        *)
(***************************************************************************)

SetRank(type) ==
    IF RetentionSet(type) = "h" THEN 1
    ELSE IF RetentionSet(type) = "n" THEN 2 ELSE 3

C8_Ordering ==
    Done =>
        \A t \in DOMAIN result :
            \A i \in 1..Len(result[t]) : \A j \in 1..Len(result[t]) :
                i < j =>
                    LET x == result[t][i]
                        y == result[t][j]
                    IN  /\ SetRank(x.type) <= SetRank(y.type)
                        /\ SetRank(x.type) = SetRank(y.type) => InOrder(x, y)

\* A located highlight, then two unlocated highlights, the newer one first
\* though it was kept later.
C8_Witness ==
    /\ Done
    /\ run = 1
    /\ \E t \in DOMAIN result :
          /\ Len(result[t]) = 3
          /\ result[t][1].loc # <<>>
          /\ result[t][2].loc = <<>>
          /\ result[t][3].loc = <<>>
          /\ TimestampOrZero(result[t][2]) > TimestampOrZero(result[t][3])
          /\ result[t][2].idx < result[t][3].idx
          /\ result[t][1].idx > result[t][2].idx

(***************************************************************************)
(* C9.  Location overlap, as claimed: for ranges with start <= end,        *)
(* ranges_overlap is true exactly when [a1-8, a2+8] and [b1-8, b2+8]       *)
(* intersect, and false when either entry has no location.                 *)
(***************************************************************************)

\* The integer intervals [lo1, hi1] and [lo2, hi2] have a common point.
Intersect(lo1, hi1, lo2, hi2) ==
    \E x \in lo1..hi1 : x \in lo2..hi2

C9_Overlap_BothEnds ==
    pc = "overlap_known" =>
        overlap = IF loc_a = <<>> \/ loc_b = <<>> THEN FALSE
                  ELSE Intersect(loc_a[1] - 8, loc_a[2] + 8,
                                 loc_b[1] - 8, loc_b[2] + 8)

(***************************************************************************)
(* C9, amended.  ranges_overlap is true exactly when [a1, a2+8] and        *)
(* [b1, b2+8] intersect (each range widened by 8 at its upper end only,    *)
(* that is, the gap between the two ranges is at most 8), and false when   *)
(* either entry has no location.                                           *)
(***************************************************************************)

C9_Overlap ==
    pc = "overlap_known" =>
        overlap = IF loc_a = <<>> \/ loc_b = <<>> THEN FALSE
                  ELSE Intersect(loc_a[1], loc_a[2] + 8,
                                 loc_b[1], loc_b[2] + 8)

\* Two ranges 8 apart overlap.
C9_Witness ==
    /\ pc = "overlap_known"
    /\ loc_a # <<>>
    /\ loc_b # <<>>
    /\ loc_b[1] = loc_a[2] + 8
    /\ loc_a[1] < loc_a[2]
    /\ overlap

(***************************************************************************)
(* C10.  The overlap branch, as claimed: for non-empty, unequal normalized *)
(* bodies and overlapping locations, is_duplicate is true iff clause_match *)
(* holds, or the subset test with floor 12, or near-equality with the      *)
(* threshold 0.90 whether or not the timestamps are close.                 *)
(***************************************************************************)

OverlapCase ==
    /\ pc = "classified"
    /\ cur.norm # <<>>
    /\ kept.norm # <<>>
    /\ cur.norm # kept.norm
    /\ OverlapOf(cur, kept)

ClauseMatchOf(c, k) ==
    clause_based_match(c.clauses, k.clauses, DefaultClauseMinLen,
                       IF CloseOf(c, k) THEN 88 ELSE 92)

C10_OverlapBranch_Always90 ==
    OverlapCase =>
        verdict = \/ ClauseMatchOf(cur, kept)
                  \/ is_subset(cur.norm, kept.norm, 12)
                  \/ very_close(cur.norm, kept.norm, 90)

(***************************************************************************)
(* C10, amended.  The near-equality threshold of the overlap branch is     *)
(* 0.90 when the timestamps are close and 0.92 when they are not.          *)
(***************************************************************************)

C10_OverlapBranch ==
    OverlapCase =>
        verdict = \/ ClauseMatchOf(cur, kept)
                  \/ is_subset(cur.norm, kept.norm, 12)
                  \/ very_close(cur.norm, kept.norm,
                                IF CloseOf(cur, kept) THEN 90 ELSE 92)

\* Overlapping locations, timestamps apart, bodies whose ratio is at least
\* 0.90 and below 0.92 and that match in no other way: not a duplicate.
C10_Witness ==
    /\ OverlapCase
    /\ ~CloseOf(cur, kept)
    /\ RatioAtLeast(cur.norm, kept.norm, 90)
    /\ ~RatioAtLeast(cur.norm, kept.norm, 92)
    /\ ~verdict

=============================================================================
